---------------------------- MODULE Spec2Model ----------------------------
(***************************************************************************)
(* Model of src/aggregate.py: the aggregation of per-segment pipe records  *)
(* into per-run pipe and node rows.                                        *)
(*                                                                         *)
(* Conventions.                                                            *)
(*  - A Python str is a sequence of one-character strings, so that split,  *)
(*    strip and the code-point ordering of sorted() are computed.          *)
(*  - A coordinate is an integer number of half tolerances: with the       *)
(*    default tol = 0.001 m one unit is 0.0005 m.  Off-grid coordinates    *)
(*    and rounding ties are therefore representable.                       *)
(*  - np.sqrt is modelled in fixed point: the integer square root, in the  *)
(*    same unit.                                                           *)
(***************************************************************************)
EXTENDS Integers, Sequences, FiniteSets, TLC

VARIABLES
    df,                 \* the input table read by pd.read_csv: a sequence of rows
    CalculatedLength_m, \* the column added by df.apply(calculate_length)
    aggregated_data,    \* grouped.agg(...).reset_index(): one record per run
    elevation_data,     \* grouped.apply(find_run_end_elevations): one record per run
    final_output_df,    \* the rows handed to to_csv
    csv_file,           \* the content of the file at output_csv_path
    tuple_hash,         \* the build's hash order of coordinate tuples (<<>>: left open)
    snap_pt,            \* a coordinate tuple handed to _snap_point
    snap_near,          \* the same physical point as emitted a second time, with noise
    snap_tol,           \* the tolerance handed to _snap_point
    snapped,            \* the calls of _snap_point made so far: argument :> result
    data,               \* the CSV builder's list of rows: references to dict objects
    objects,            \* the dict objects the rows refer to: reference :> row
    choice,             \* the last choice read at the CSV builder's menu
    ops,                \* the number of choices the CSV builder has handled
    pc                  \* position of the script

snap_vars == <<snap_pt, snap_near, snap_tol, snapped>>
builder_vars == <<data, objects, choice, ops>>

vars == <<df, CalculatedLength_m, aggregated_data, elevation_data,
          final_output_df, csv_file, tuple_hash, snap_vars, builder_vars, pc>>

\* The CSV builder is not running.
BuilderIdle == data = <<>> /\ objects = <<>> /\ choice = "" /\ ops = 0

---------------------------------------------------------------------------
(* Python str                                                              *)

\* The printable ASCII characters in code-point order, from 32 (space); the
\* grave accent (96) cannot be written in a module and is named instead.
Ascii ==
    <<" ", "!", "\"", "#", "$", "%", "&", "'", "(", ")", "*", "+", ",", "-", ".", "/",
      "0", "1", "2", "3", "4", "5", "6", "7", "8", "9", ":", ";", "<", "=", ">", "?",
      "@", "A", "B", "C", "D", "E", "F", "G", "H", "I", "J", "K", "L", "M", "N", "O",
      "P", "Q", "R", "S", "T", "U", "V", "W", "X", "Y", "Z", "[", "\\", "]", "^", "_",
      "GRAVE", "a", "b", "c", "d", "e", "f", "g", "h", "i", "j", "k", "l", "m", "n", "o",
      "p", "q", "r", "s", "t", "u", "v", "w", "x", "y", "z", "{", "|", "}", "~">>

Chars == {Ascii[i] : i \in 1..Len(Ascii)}

\* ord(c)
Ord == [c \in Chars |-> 31 + CHOOSE i \in 1..Len(Ascii) : Ascii[i] = c]

\* a < b for two str: lexicographic by code point, a proper prefix first.
RECURSIVE StrLess(_, _)
StrLess(a, b) ==
    IF b = <<>> THEN FALSE
    ELSE IF a = <<>> THEN TRUE
    ELSE IF Head(a) = Head(b) THEN StrLess(Tail(a), Tail(b))
    ELSE Ord[Head(a)] < Ord[Head(b)]

\* s.split(sep) for a one-character separator: the pieces, empty ones kept.
RECURSIVE SplitFrom(_, _, _)
SplitFrom(s, sep, piece) ==
    IF s = <<>> THEN <<piece>>
    ELSE IF Head(s) = sep THEN <<piece>> \o SplitFrom(Tail(s), sep, <<>>)
    ELSE SplitFrom(Tail(s), sep, Append(piece, Head(s)))

Split(s, sep) == SplitFrom(s, sep, <<>>)

\* s.strip(): leading and trailing white space removed.
RECURSIVE LStrip(_)
LStrip(s) == IF s # <<>> /\ Head(s) = " " THEN LStrip(Tail(s)) ELSE s

RECURSIVE RStrip(_)
RStrip(s) ==
    IF s # <<>> /\ s[Len(s)] = " " THEN RStrip(SubSeq(s, 1, Len(s) - 1)) ELSE s

Strip(s) == RStrip(LStrip(s))

\* sep.join(parts)
RECURSIVE Join(_, _)
Join(parts, sep) ==
    IF parts = <<>> THEN <<>>
    ELSE IF Len(parts) = 1 THEN parts[1]
    ELSE parts[1] \o sep \o Join(Tail(parts), sep)

\* sorted(list(S)) for a set of str
RECURSIVE SortedStr(_)
SortedStr(S) ==
    IF S = {} THEN <<>>
    ELSE LET m == CHOOSE x \in S : \A y \in S \ {x} : StrLess(x, y)
         IN  <<m>> \o SortedStr(S \ {m})

Range(s) == {s[i] : i \in 1..Len(s)}

\* The value pandas gives an empty CSV cell: a float NaN, not a str.
NaN == <<"NaN">>

\* isinstance(item, str)
IsStr(item) == item # NaN

---------------------------------------------------------------------------
(* Numbers                                                                 *)

\* tol = 0.001 in coordinate units (one unit is half a tolerance).
TolUnits == 2

UnitsPerMetre == 1000 * TolUnits

\* round(n / d) of Python 3: to the nearest integer, a tie to the even one.
Round(n, d) ==
    LET q == n \div d
        r == n % d
    IN  IF 2 * r < d THEN q
        ELSE IF 2 * r > d THEN q + 1
        ELSE IF q % 2 = 0 THEN q ELSE q + 1

\* The largest k with k * k <= n, by bisection on lo <= k < hi.
RECURSIVE ISqrtIn(_, _, _)
ISqrtIn(n, lo, hi) ==
    IF hi - lo <= 1 THEN lo
    ELSE LET mid == (lo + hi) \div 2
         IN  IF mid * mid <= n THEN ISqrtIn(n, mid, hi) ELSE ISqrtIn(n, lo, mid)

ISqrt(n) == ISqrtIn(n, 0, 46341)

RECURSIVE SumSeq(_)
SumSeq(s) == IF s = <<>> THEN 0 ELSE Head(s) + SumSeq(Tail(s))

Min(S) == CHOOSE x \in S : \A y \in S : x <= y
Max(S) == CHOOSE x \in S : \A y \in S : y <= x

---------------------------------------------------------------------------
(* Helper functions of the script                                          *)

\* calculate_length(row): the 3D length of a segment.

\* The coordinate columns, and the cells of a row that pd.read_csv did not
\* read as numbers: `empty` names the columns whose cell is empty (read as
\* NaN) and `text` those whose cell holds text.  A row without these fields
\* has a number in every numeric column.
CoordinateColumns == {"StartX_m", "StartY_m", "StartZ_m", "EndX_m", "EndY_m", "EndZ_m"}
EmptyCells(row) == IF "empty" \in DOMAIN row THEN row.empty ELSE {}
TextCells(row) == IF "text" \in DOMAIN row THEN row.text ELSE {}
HasNaN(row) == EmptyCells(row) \cap CoordinateColumns # {}
HasText(row) == TextCells(row) \cap CoordinateColumns # {}

\* calculate_length(row); np.sqrt of an expression with a NaN is NaN.
calculate_length(row) ==
    IF HasNaN(row) THEN NaN ELSE
    ISqrt((row.EndX_m - row.StartX_m) * (row.EndX_m - row.StartX_m) +
          (row.EndY_m - row.StartY_m) * (row.EndY_m - row.StartY_m) +
          (row.EndZ_m - row.StartZ_m) * (row.EndZ_m - row.StartZ_m))

\* unique_fittings_with_id keyed by row as well as by fitting: what a list
\* of all references would hold.
unique_fittings_per_row(series) ==
    UNION { IF IsStr(series[i])
            THEN {Strip(fitting) \o <<"#", <<"1", "2", "3", "4", "5", "6", "7", "8", "9">>[i]>>
                    : fitting \in Range(Split(series[i], ";")) \ {<<>>}}
            ELSE {} : i \in 1..Len(series) }

\* unique_fittings_with_id collecting the pieces as they are, not stripped.
unique_fittings_unstripped(series) ==
    UNION { IF IsStr(series[i])
            THEN Range(Split(series[i], ";")) \ {<<>>}
            ELSE {} : i \in 1..Len(series) }

\* The set unique_fittings_with_id that aggregate_fittings collects: every
\* non-empty piece of every str item, stripped.
unique_fittings_with_id(series) ==
    UNION { IF IsStr(series[i])
            THEN {Strip(fitting) : fitting \in Range(Split(series[i], ";")) \ {<<>>}}
            ELSE {} : i \in 1..Len(series) }

\* fitting_names reduced to the unique names, in sorted order.
fitting_names_unique(series) ==
    SortedStr({Split(f, "[")[1] : f \in unique_fittings_with_id(series)})

\* The list fitting_names: the part before the first "[" of each unique
\* fitting, the unique fittings taken in sorted order.
fitting_names(series) ==
    LET unique == SortedStr(unique_fittings_with_id(series))
    IN  [i \in 1..Len(unique) |-> Split(unique[i], "[")[1]]

\* aggregate_fittings(series)
aggregate_fittings(series) == Join(fitting_names(series), <<";", " ">>)


\* _snap_point returning the rounded quotients, not scaled back by tol.
_snap_point_unscaled(pt, tol) ==
    <<Round(pt[1], tol), Round(pt[2], tol), Round(pt[3], tol)>>

\* _snap_point(pt, tol)
_snap_point(pt, tol) ==
    <<Round(pt[1], tol) * tol, Round(pt[2], tol) * tol, Round(pt[3], tol) * tol>>

\* The two kinds of graph node: a snapped coordinate tuple, a fitting str.
PointNode(p) == [pt |-> p]
FittingNode(f) == [fit |-> f]
IsPoint(n) == DOMAIN n = {"pt"}

\* The empty adjacency (a defaultdict(set), with the order its keys were
\* inserted in) and the empty node_z.
EmptyGraph == [adj |-> <<>>, keys |-> <<>>, node_z |-> <<>>]

\* adj[u].add(v): the defaultdict creates the key u on first access.
AdjAdd(g, u, v) ==
    IF u \in DOMAIN g.adj
    THEN [g EXCEPT !.adj[u] = @ \cup {v}]
    ELSE [g EXCEPT !.adj = (u :> {v}) @@ @, !.keys = Append(@, u)]

\* node_z[n] = z
SetZ(g, n, z) == [g EXCEPT !.node_z = (n :> z) @@ @]

\* One pass of the loop "for f in fittings.split(';')" for the segment p1-p2.
RECURSIVE AddFittings(_, _, _, _)
AddFittings(g, p1, p2, pieces) ==
    IF pieces = <<>> THEN g
    ELSE LET f == Strip(Head(pieces))
             n == FittingNode(f)
             h == IF f # <<>>
                  THEN SetZ(AdjAdd(AdjAdd(AdjAdd(AdjAdd(g, p1, n), n, p1), p2, n), n, p2),
                            n, (p1.pt[3] + p2.pt[3]) \div 2)
                  ELSE g
         IN  AddFittings(h, p1, p2, Tail(pieces))

\* One pass of the loop "for _, row in group.iterrows()".
AddRow(g, row, tol) ==
    LET p1 == PointNode(_snap_point(<<row.StartX_m, row.StartY_m, row.StartZ_m>>, tol))
        p2 == PointNode(_snap_point(<<row.EndX_m, row.EndY_m, row.EndZ_m>>, tol))
        g1 == SetZ(SetZ(g, p1, p1.pt[3]), p2, p2.pt[3])
        g2 == AdjAdd(AdjAdd(g1, p1, p2), p2, p1)
        fittings == row.ConnectedFittingNames
    IN  IF IsStr(fittings) /\ Strip(fittings) # <<>>
        THEN AddFittings(g2, p1, p2, Split(fittings, ";"))
        ELSE g2

\* adj and node_z after the loop over the rows of the group.
RECURSIVE BuildGraph(_, _, _)
BuildGraph(g, group, tol) ==
    IF group = <<>> THEN g ELSE BuildGraph(AddRow(g, Head(group), tol), Tail(group), tol)

\* endpoints: the nodes of degree 1, in the order of the keys of adj.
Endpoints(g) == SelectSeq(g.keys, LAMBDA n : Cardinality(g.adj[n]) = 1)

---------------------------------------------------------------------------
(* Iteration order of a set                                                *)

RECURSIVE Perms(_)
Perms(S) ==
    IF S = {} THEN {<<>>}
    ELSE UNION {{<<x>> \o p : p \in Perms(S \ {x})} : x \in S}

Pos(order, x) == CHOOSE k \in 1..Len(order) : order[k] = x

\* The orders in which "for v in adj[u]" may deliver the members `new` of a
\* set.  A set is laid out by the hashes of its members.  The hash of a
\* tuple of floats is fixed by the build: when `order` lists the coordinate
\* tuples in that order, the point nodes come in it; when `order` is <<>>
\* the build's order is left open and any order may be seen.  The hash of a
\* str changes with the hash seed of each process, so a fitting node may
\* come anywhere.
IterOrders(new, order) ==
    {o \in Perms(new) :
        order = <<>> \/
        \A i, j \in 1..Len(o) :
            (i < j /\ IsPoint(o[i]) /\ IsPoint(o[j]))
                => Pos(order, o[i].pt) < Pos(order, o[j].pt)}

---------------------------------------------------------------------------
(* Endpoint resolution                                                     *)

\* The loop "while q" of farthest_pair: the nodes `farthest` may end as.
\* The neighbours of u not seen yet all get the depth seen[u] + 1, so only
\* the first of them can replace farthest.
RECURSIVE BfsLoop(_, _, _, _, _)
BfsLoop(adj, order, seen, q, farthest) ==
    IF q = <<>> THEN {farthest}
    ELSE LET u == Head(q)
             new == adj[u] \ DOMAIN seen
         IN  IF new = {} THEN BfsLoop(adj, order, seen, Tail(q), farthest)
             ELSE UNION {
                    BfsLoop(adj, order,
                            [v \in new |-> seen[u] + 1] @@ seen,
                            Tail(q) \o o,
                            IF seen[u] + 1 > seen[farthest] THEN o[1] ELSE farthest)
                    : o \in IterOrders(new, order) }

\* farthest_pair stopping at the first hop: a neighbour of the start node.
farthest_pair_one_hop(adj, order, start_node) == adj[start_node]

\* farthest_pair(start_node)[0]
farthest_pair(adj, order, start_node) ==
    BfsLoop(adj, order, (start_node :> 0), <<start_node>>, start_node)

\* Ascending without the swap.
AscendingNoSwap(za, zb) == <<za, zb>>

\* return (za, zb) if za <= zb else (zb, za)
Ascending(za, zb) == IF za <= zb THEN <<za, zb>> ELSE <<zb, za>>

\* The nodes a and b of the two sweeps: a is farthest from endpoints[0] and
\* b farthest from a.
DoubleBfsNodes(g, order) ==
    UNION { {<<a, b>> : b \in farthest_pair(g.adj, order, a)}
            : a \in farthest_pair(g.adj, order, Endpoints(g)[1]) }

\* The branch "if len(endpoints) >= 2" of find_run_end_elevations.
DoubleBfs(g, order) ==
    {Ascending(g.node_z[ab[1]], g.node_z[ab[2]]) : ab \in DoubleBfsNodes(g, order)}

\* The fallback reading the first and the last key of adj instead of the
\* extremes of node_z.
VerticalRangeFirstLast(g) ==
    <<g.node_z[g.keys[1]], g.node_z[g.keys[Len(g.keys)]]>>

\* The fallback "return (min(zs), max(zs))".
VerticalRange(g) ==
    LET zs == {g.node_z[n] : n \in DOMAIN g.node_z} IN <<Min(zs), Max(zs)>>

\* find_run_end_elevations without the single-segment case.
find_run_end_elevations_graph_only(group, tol, order) ==
    LET g == BuildGraph(EmptyGraph, group, tol)
    IN  IF g.keys = <<>> THEN {<<0, 0>>}
        ELSE IF Len(Endpoints(g)) >= 2 THEN DoubleBfs(g, order)
        ELSE {VerticalRange(g)}


\* find_run_end_elevations running the double search from a single endpoint.
find_run_end_elevations_any_endpoint(group, tol, order) ==
    IF Len(group) = 1
    THEN {<<group[1].StartZ_m, group[1].EndZ_m>>}
    ELSE LET g == BuildGraph(EmptyGraph, group, tol)
         IN  IF g.keys = <<>> THEN {<<0, 0>>}
             ELSE IF Len(Endpoints(g)) >= 1 THEN DoubleBfs(g, order)
             ELSE {VerticalRange(g)}

\* find_run_end_elevations(group, tol): the pairs it may return, one for each
\* order in which the neighbour sets may be iterated.
find_run_end_elevations(group, tol, order) ==
    IF Len(group) = 1
    THEN {<<group[1].StartZ_m, group[1].EndZ_m>>}
    ELSE LET g == BuildGraph(EmptyGraph, group, tol)
         IN  IF g.keys = <<>> THEN {<<0, 0>>}
             ELSE IF Len(Endpoints(g)) >= 2 THEN DoubleBfs(g, order)
             ELSE {VerticalRange(g)}

---------------------------------------------------------------------------
(* The script                                                              *)

\* output_columns
output_columns ==
    <<"device_type", "name", "elevation", "length", "spec", "size", "fittings",
      "inlet elevation", "outlet elevation", "Flow Control Device", "Temp Tolerance",
      "Thermal Calculation Mode", "Heat Transfer Rate", "Thermal Flow Rate",
      "Source", "Control Valve model", "Control Valve setpoint", "Control Valve min dP",
      "Control Valve max dP">>

\* A cell of a table: a number, a str, or the NaN of a missing value.
Num(n) == [num |-> n]
Txt(s) == [str |-> s]
NaNCell == [nan |-> TRUE]

\* df.groupby('PipeRunID'): the group keys in sorted order, and the positions
\* of the rows of one group in input order.
RunKeys(d) == SortedStr({d[i].PipeRunID : i \in 1..Len(d)})
GroupIndex(d, run) ==
    SelectSeq([i \in 1..Len(d) |-> i], LAMBDA i : d[i].PipeRunID = run)
Group(d, run) == SelectSeq(d, LAMBDA row : row.PipeRunID = run)

\* x.mode().iloc[0]: the most frequent value, the lowest of them on a tie.
Count(vals, v) == Cardinality({i \in 1..Len(vals) : vals[i] = v})
Modes(vals) ==
    {v \in Range(vals) : \A w \in Range(vals) : Count(vals, w) <= Count(vals, v)}

\* The mode taken as the value of the first row.
ModeStrFirstRow(vals) == vals[1]

ModeStr(vals) == SortedStr(Modes(vals))[1]
ModeNum(vals) == Min(Modes(vals))

\* AggregateRun with the lengths of the whole column summed, not the group's.
AggregateRunWholeColumn(d, lengths, run) ==
    LET idx == GroupIndex(d, run)
    IN  [PipeRunID   |-> run,
         TotalLength |-> SumSeq(lengths),
         Spec        |-> ModeStr([k \in 1..Len(idx) |-> d[idx[k]].SegmentName]),
         Size        |-> ModeNum([k \in 1..Len(idx) |-> d[idx[k]].Diameter_mm]),
         Fittings    |-> aggregate_fittings(
                            [k \in 1..Len(idx) |-> d[idx[k]].ConnectedFittingNames])]

\* One row of grouped.agg(TotalLength, Spec, Size, Fittings); 'sum' skips the
\* lengths that are NaN.
AggregateRun(d, lengths, run) ==
    LET idx == GroupIndex(d, run)
    IN  [PipeRunID   |-> run,
         TotalLength |-> SumSeq([k \in 1..Len(idx) |->
                            IF HasNaN(d[idx[k]]) THEN 0 ELSE lengths[idx[k]]]),
         Spec        |-> ModeStr([k \in 1..Len(idx) |-> d[idx[k]].SegmentName]),
         Size        |-> ModeNum([k \in 1..Len(idx) |-> d[idx[k]].Diameter_mm]),
         Fittings    |-> aggregate_fittings(
                            [k \in 1..Len(idx) |-> d[idx[k]].ConnectedFittingNames])]

\* The tables grouped.apply(find_run_end_elevations) may give for the runs
\* `runs`, in key order.
RECURSIVE ElevationTables(_, _, _)
ElevationTables(d, runs, order) ==
    IF runs = <<>> THEN {<<>>}
    ELSE {<<[PipeRunID |-> Head(runs), StartElevation_m |-> e[1], EndElevation_m |-> e[2]]>>
            \o rest :
            e \in find_run_end_elevations(Group(d, Head(runs)), TolUnits, order),
            rest \in ElevationTables(d, Tail(runs), order)}


\* OutputRow without fillna(''): a column the entry does not name stays NaN.
OutputRowNoFill(entry) ==
    [c \in Range(output_columns) |-> IF c \in DOMAIN entry THEN entry[c] ELSE NaNCell]

\* pd.DataFrame(entries, columns=output_columns) followed by fillna(''): a
\* column the entry does not name is NaN, and NaN becomes ''.
OutputRow(entry) ==
    [c \in Range(output_columns) |->
        IF c \in DOMAIN entry /\ entry[c] # NaNCell THEN entry[c] ELSE Txt(<<>>)]

\* pipe_entry of one row of final_aggregated_df
pipe_entry(agg) ==
    [device_type |-> Txt(<<"p", "i", "p", "e">>),
     name        |-> Txt(agg.PipeRunID),
     length      |-> Num(agg.TotalLength),
     spec        |-> Txt(agg.Spec),
     fittings    |-> Txt(agg.Fittings),
     size        |-> Num(agg.Size)]

\* start_node and end_node of one row of final_aggregated_df
start_node(elev) ==
    [device_type |-> Txt(<<"n", "o", "d", "e">>),
     name        |-> Txt(elev.PipeRunID \o <<"_", "S", "t", "a", "r", "t", "N", "o", "d", "e">>),
     elevation   |-> Num(elev.StartElevation_m)]
end_node(elev) ==
    [device_type |-> Txt(<<"n", "o", "d", "e">>),
     name        |-> Txt(elev.PipeRunID \o <<"_", "E", "n", "d", "N", "o", "d", "e">>),
     elevation   |-> Num(elev.EndElevation_m)]


\* node_data holding the start node of every run only.
RECURSIVE node_data_start_only(_)
node_data_start_only(elevs) ==
    IF elevs = <<>> THEN <<>>
    ELSE <<OutputRow(start_node(Head(elevs)))>> \o node_data_start_only(Tail(elevs))

\* node_data: the start and the end node of every run, run after run.
RECURSIVE node_data(_)
node_data(elevs) ==
    IF elevs = <<>> THEN <<>>
    ELSE <<OutputRow(start_node(Head(elevs))), OutputRow(end_node(Head(elevs)))>>
            \o node_data(Tail(elevs))

\* final_output_df: the pipe rows, then the node rows.
Assembled(aggs, elevs) ==
    [i \in 1..Len(aggs) |-> OutputRow(pipe_entry(aggs[i]))] \o node_data(elevs)

---------------------------------------------------------------------------
(* Input tables                                                            *)

\* The largest number of rows of an input table.
MaxRows == 3

R1 == <<"R", "1">>
R2 == <<"R", "2">>
CS40 == <<"C", "S", "4", "0">>
SS10 == <<"S", "S", "1", "0">>

\* A fitting instance as the export describes it: the family name and the
\* element id.
Elbow1 == [name |-> <<"E", "l", "b", "o", "w">>, id |-> <<"1">>]
Elbow2 == [name |-> <<"E", "l", "b", "o", "w">>, id |-> <<"2">>]
Tee2   == [name |-> <<"T", "e", "e">>, id |-> <<"2">>]
TeeX3  == [name |-> <<"T", "e", "e", " ", "X">>, id |-> <<"3">>]

\* "{}[{}]".format(name, id)
TokStr(t) == t.name \o <<"[">> \o t.id \o <<"]">>

\* The cell ConnectedFittingNames for the fitting instances `tokens`, joined
\* by `sep` (";" in the export); NaN when there is none.
FieldValue(tokens, sep) ==
    IF tokens = <<>> THEN NaN
    ELSE Join([i \in 1..Len(tokens) |-> TokStr(tokens[i])], sep)

Semi == <<";">>
SemiSpace == <<";", " ">>

\* The instance lists and separators the input cells are made of.
FieldParts ==
    {<<<<>>, Semi>>, <<<<Elbow1>>, Semi>>, <<<<Elbow2>>, Semi>>, <<<<Tee2>>, Semi>>,
     <<<<TeeX3>>, Semi>>, <<<<Elbow1, Tee2>>, SemiSpace>>, <<<<Elbow1, Tee2>>, Semi>>,
     <<<<Tee2, Elbow2>>, SemiSpace>>}

\* Coordinates, in units; M is one metre.
M == UnitsPerMetre
PA  == <<0, 0, 0>>
PB  == <<5 * M, 0, 0>>
PC  == <<5 * M, 0, 3 * M>>
PE  == <<5 * M, 0, 6 * M>>
PV  == <<5 * M, 0, 9 * M>>
PBn == <<5 * M, 0, 1>>          \* half a tolerance above PB: off the grid
PCn == <<5 * M, 0, 3 * M + 1>>  \* half a tolerance above PC: snaps onto PC
PD  == <<3 * M, 4 * M, 0>>
PF  == <<M, M, 0>>

Seg(run, s, e, spec, size, tokens, sep) ==
    [PipeRunID |-> run,
     StartX_m |-> s[1], StartY_m |-> s[2], StartZ_m |-> s[3],
     EndX_m |-> e[1], EndY_m |-> e[2], EndZ_m |-> e[3],
     SegmentName |-> spec, Diameter_mm |-> size,
     ConnectedFittingNames |-> FieldValue(tokens, sep)]

\* Rows that vary the geometry of one run: a riser PB-PC-PE-PV, its lower
\* segments in both orientations, a horizontal feed, segments closing loops,
\* shared fittings, a zero-length segment, an off-grid end and a stub shorter
\* than the tolerance that carries a fitting.
TopoRows ==
    {Seg(R1, PB, PC, CS40, 50, <<>>, Semi), Seg(R1, PC, PB, CS40, 50, <<>>, Semi),
     Seg(R1, PC, PE, CS40, 50, <<>>, Semi), Seg(R1, PE, PC, CS40, 50, <<>>, Semi),
     Seg(R1, PV, PE, CS40, 50, <<>>, Semi),
     Seg(R1, PA, PB, CS40, 50, <<>>, Semi), Seg(R1, PE, PB, CS40, 50, <<>>, Semi),
     Seg(R1, PB, PC, CS40, 50, <<Elbow1>>, Semi),
     Seg(R1, PC, PE, CS40, 50, <<Elbow1>>, Semi),
     Seg(R1, PC, PC, CS40, 50, <<Tee2>>, Semi),
     Seg(R1, PBn, PC, CS40, 50, <<>>, Semi),
     Seg(R1, PC, PCn, CS40, 50, <<Tee2>>, Semi),
     Seg(R1, PCn, PE, CS40, 50, <<>>, Semi)}

\* Rows that vary the fitting cells of two runs.
FitRows ==
    {Seg(R1, PA, PB, CS40, 50, <<Elbow1>>, Semi),
     Seg(R1, PB, PC, CS40, 50, <<Elbow1, Tee2>>, Semi),
     Seg(R1, PB, PC, CS40, 50, <<Elbow2>>, Semi),
     Seg(R1, PB, PC, CS40, 50, <<TeeX3>>, Semi),
     Seg(R1, PA, PB, CS40, 50, <<Tee2>>, Semi),
     Seg(R1, PA, PB, CS40, 50, <<>>, Semi),
     Seg(R2, PA, PB, CS40, 50, <<Elbow1>>, Semi),
     Seg(R2, PB, PC, CS40, 50, <<Tee2, Elbow2>>, SemiSpace)}

\* Rows that vary run, spec, size and length; the first two are the
\* run R1 of the example scenario.
MainRows ==
    {Seg(R1, PA, PB, CS40, 50, <<Elbow1>>, Semi),
     Seg(R1, PB, PC, CS40, 50, <<Elbow1, Tee2>>, SemiSpace),
     Seg(R1, PC, PE, SS10, 80, <<>>, Semi),
     Seg(R1, PA, PF, SS10, 50, <<>>, Semi),
     Seg(R2, PA, PB, SS10, 80, <<>>, Semi),
     Seg(R2, PB, PC, CS40, 80, <<Tee2>>, Semi),
     Seg(R2, PA, PD, CS40, 50, <<>>, Semi),
     Seg(R2, PB, PB, SS10, 50, <<>>, Semi)}

\* Rows for running the script twice on one input: a feed, a riser and a
\* branch, with and without a fitting.
RerunRows ==
    {Seg(R1, PA, PB, CS40, 50, <<>>, Semi),
     Seg(R1, PB, PC, CS40, 50, <<Elbow1>>, Semi),
     Seg(R1, PB, PC, CS40, 50, <<>>, Semi),
     Seg(R1, PB, PE, CS40, 50, <<>>, Semi),
     Seg(R1, PC, PE, CS40, 50, <<Tee2>>, Semi),
     Seg(R2, PA, PB, CS40, 50, <<>>, Semi)}


\* A row whose cell ConnectedFittingNames is the str `cell` as it stands.
SegCell(run, s, e, spec, size, cell) ==
    [Seg(run, s, e, spec, size, <<>>, Semi) EXCEPT !.ConnectedFittingNames = cell]

\* Rows of an export that was edited or damaged: an empty or a text cell in
\* a coordinate column, and fitting cells with pieces that are not of the
\* form Name[Id].
DirtyRows ==
    {Seg(R1, PA, PB, CS40, 50, <<Elbow1>>, Semi),
     Seg(R1, PB, PC, CS40, 50, <<Tee2>>, Semi),
     Seg(R1, PB, PC, CS40, 50, <<Elbow2>>, Semi) @@ [empty |-> {"StartX_m"}],
     Seg(R2, PA, PB, CS40, 50, <<Tee2>>, Semi) @@ [empty |-> {"EndX_m"}],
     Seg(R2, PB, PC, CS40, 50, <<>>, Semi) @@ [text |-> {"StartY_m"}],
     SegCell(R1, PB, PC, CS40, 50, <<"V", "a", "l", "v", "e">>),
     SegCell(R1, PC, PE, CS40, 50,
             <<"E", "l", "b", "o", "w", "[", "1", "]", ";", "T", "e", "e", "[">>),
     Seg(R2, PA, PB, CS40, 50, <<>>, Semi)}

\* The tables of 1..MaxRows rows drawn from `rows`.
InputTables(rows) == UNION {[1..n -> rows] : n \in 1..MaxRows}

\* The snapped coordinate tuples of a table.
SnappedPoints(d) ==
    UNION {{_snap_point(<<d[i].StartX_m, d[i].StartY_m, d[i].StartZ_m>>, TolUnits),
            _snap_point(<<d[i].EndX_m, d[i].EndY_m, d[i].EndZ_m>>, TolUnits)}
           : i \in 1..Len(d)}

---------------------------------------------------------------------------
(* The state machine                                                       *)

Loaded(d, order) ==
    /\ df = d
    /\ CalculatedLength_m = <<>>
    /\ aggregated_data = <<>>
    /\ elevation_data = <<>>
    /\ final_output_df = <<>>
    /\ csv_file = <<>>
    /\ tuple_hash = order
    /\ snap_pt = <<>> /\ snap_near = <<>> /\ snap_tol = TolUnits /\ snapped = <<>>
    /\ BuilderIdle
    /\ pc = "loaded"


\* A coordinate column with a text cell is read as a column of str, and the
\* subtraction in calculate_length raises TypeError on the first row.
LengthRaisesTypeError(d) == \E i \in 1..Len(d) : HasText(d[i])

\* In a group of two or more rows _snap_point is applied to every row, and
\* round() of a NaN raises ValueError.
SnapRaisesValueError(group) ==
    Len(group) >= 2 /\ \E i \in 1..Len(group) : HasNaN(group[i])

\* After pd.read_csv.  The build's tuple order is left open.
Init ==
    \E d \in InputTables(TopoRows) \cup InputTables(FitRows) \cup InputTables(MainRows) :
        Loaded(d, <<>>)

\* df['CalculatedLength_m'] = df.apply(calculate_length, axis=1)
CalculateLength ==
    /\ pc = "loaded"
    /\ ~LengthRaisesTypeError(df)
    /\ CalculatedLength_m' = [i \in 1..Len(df) |-> calculate_length(df[i])]
    /\ pc' = "measured"
    /\ UNCHANGED <<df, aggregated_data, elevation_data, final_output_df, csv_file, tuple_hash, snap_vars, builder_vars>>

\* aggregated_data = grouped.agg(...).reset_index()
Aggregate ==
    /\ pc = "measured"
    /\ aggregated_data' =
          [k \in 1..Len(RunKeys(df)) |-> AggregateRun(df, CalculatedLength_m, RunKeys(df)[k])]
    /\ pc' = "aggregated"
    /\ UNCHANGED <<df, CalculatedLength_m, elevation_data, final_output_df, csv_file, tuple_hash, snap_vars, builder_vars>>

\* elevation_data = grouped.apply(find_run_end_elevations).reset_index(...)
ResolveElevations ==
    /\ pc = "aggregated"
    /\ \A run \in Range(RunKeys(df)) : ~SnapRaisesValueError(Group(df, run))
    /\ elevation_data' \in ElevationTables(df, RunKeys(df), tuple_hash)
    /\ pc' = "resolved"
    /\ UNCHANGED <<df, CalculatedLength_m, aggregated_data, final_output_df, csv_file, tuple_hash, snap_vars, builder_vars>>

\* pd.merge, the loop building pipe_data and node_data, pd.concat, fillna('')
Assemble ==
    /\ pc = "resolved"
    /\ final_output_df' = Assembled(aggregated_data, elevation_data)
    /\ pc' = "assembled"
    /\ UNCHANGED <<df, CalculatedLength_m, aggregated_data, elevation_data, csv_file, tuple_hash, snap_vars, builder_vars>>

\* final_output_df.to_csv(output_csv_path, ...)
WriteCsv ==
    /\ pc = "assembled"
    /\ csv_file' = final_output_df
    /\ pc' = "done"
    /\ UNCHANGED <<df, CalculatedLength_m, aggregated_data, elevation_data,
                   final_output_df, tuple_hash, snap_vars, builder_vars>>

Next == CalculateLength \/ Aggregate \/ ResolveElevations \/ Assemble \/ WriteCsv

Spec == Init /\ [][Next]_vars


\* An exception raised inside df.apply or grouped.apply is caught nowhere:
\* the script ends with a traceback and writes no file.
Aborted ==
    /\ CalculatedLength_m' = <<>>
    /\ aggregated_data' = <<>>
    /\ elevation_data' = <<>>
    /\ final_output_df' = <<>>
    /\ pc' = "aborted"
    /\ UNCHANGED <<df, csv_file, tuple_hash, snap_vars, builder_vars>>

\* df.apply(calculate_length, axis=1) raising TypeError
CalculateLengthRaises ==
    /\ pc = "loaded"
    /\ LengthRaisesTypeError(df)
    /\ Aborted

\* grouped.apply(find_run_end_elevations) raising ValueError
ResolveElevationsRaises ==
    /\ pc = "aggregated"
    /\ \E run \in Range(RunKeys(df)) : SnapRaisesValueError(Group(df, run))
    /\ Aborted

\* The script on an export with cells that are not what the script expects.
InitDirty == \E d \in InputTables(DirtyRows) : Loaded(d, <<>>)

NextDirty == Next \/ CalculateLengthRaises \/ ResolveElevationsRaises

SpecDirty == InitDirty /\ [][NextDirty]_vars

\* The operator runs the script again on the unchanged input: a new process,
\* the file of the previous run still in place.
Rerun ==
    /\ pc = "done"
    /\ CalculatedLength_m' = <<>>
    /\ aggregated_data' = <<>>
    /\ elevation_data' = <<>>
    /\ final_output_df' = <<>>
    /\ pc' = "loaded"
    /\ UNCHANGED <<df, csv_file, tuple_hash, snap_vars, builder_vars>>

\* The build fixes the order of the coordinate tuples once for all runs of
\* the script.
InitRerun ==
    \E d \in InputTables(RerunRows) :
        \E order \in Perms(SnappedPoints(d)) : Loaded(d, order)

NextRerun == Next \/ Rerun

SpecRerun == InitRerun /\ [][NextRerun]_vars

---------------------------------------------------------------------------
(* _snap_point on its own                                                  *)

\* The largest coordinate, in units, handed to _snap_point.
MaxCoord == 2

\* The arguments: coordinates on both sides of zero, on and off the grid; a
\* noise of at most one unit on each axis, below every tolerance; the
\* default tolerance, an odd one and a wider one.
SnapCoords == (-MaxCoord)..MaxCoord
SnapNoise == {-1, 0, 1}
SnapTols == {TolUnits, TolUnits + 1, 2 * TolUnits}

InitSnap ==
    /\ df = <<>>
    /\ CalculatedLength_m = <<>>
    /\ aggregated_data = <<>>
    /\ elevation_data = <<>>
    /\ final_output_df = <<>>
    /\ csv_file = <<>>
    /\ tuple_hash = <<>>
    /\ snap_pt \in SnapCoords \X SnapCoords \X SnapCoords
    /\ \E n \in SnapNoise \X SnapNoise \X SnapNoise :
          snap_near = <<snap_pt[1] + n[1], snap_pt[2] + n[2], snap_pt[3] + n[3]>>
    /\ snap_tol \in SnapTols
    /\ snapped = <<>>
    /\ BuilderIdle
    /\ pc = "snap"

\* The record of calls after one more call _snap_point(arg, tol).
Called(arg) == (arg :> _snap_point(arg, snap_tol)) @@ snapped

\* _snap_point(pt, tol)
SnapPoint ==
    /\ pc = "snap"
    /\ snap_pt \notin DOMAIN snapped
    /\ snapped' = Called(snap_pt)
    /\ UNCHANGED <<df, CalculatedLength_m, aggregated_data, elevation_data,
                   final_output_df, csv_file, tuple_hash, snap_pt, snap_near, snap_tol, pc,
                   builder_vars>>

\* _snap_point of the noisy copy of the point
SnapNear ==
    /\ pc = "snap"
    /\ snap_near \notin DOMAIN snapped
    /\ snapped' = Called(snap_near)
    /\ UNCHANGED <<df, CalculatedLength_m, aggregated_data, elevation_data,
                   final_output_df, csv_file, tuple_hash, snap_pt, snap_near, snap_tol, pc,
                   builder_vars>>

\* _snap_point of a result of _snap_point
SnapAgain ==
    /\ pc = "snap"
    /\ \E p \in DOMAIN snapped :
          /\ snapped[p] \notin DOMAIN snapped
          /\ snapped' = Called(snapped[p])
    /\ UNCHANGED <<df, CalculatedLength_m, aggregated_data, elevation_data,
                   final_output_df, csv_file, tuple_hash, snap_pt, snap_near, snap_tol, pc,
                   builder_vars>>

NextSnap == SnapPoint \/ SnapNear \/ SnapAgain

SpecSnap == InitSnap /\ [][NextSnap]_vars

---------------------------------------------------------------------------
(* Vocabulary of the properties                                            *)

Measured == pc \notin {"loaded"}
Aggregated == pc \notin {"loaded", "measured"}
Resolved == pc \notin {"loaded", "measured", "aggregated"}
Written == pc \in {"assembled", "done"}

RowStart(row) == <<row.StartX_m, row.StartY_m, row.StartZ_m>>
RowEnd(row) == <<row.EndX_m, row.EndY_m, row.EndZ_m>>

\* The positions of the rows of a run, as a set.
RowsOf(run) == {i \in 1..Len(df) : df[i].PipeRunID = run}

RECURSIVE SumOver(_, _)
SumOver(S, f) ==
    IF S = {} THEN 0
    ELSE LET i == CHOOSE x \in S : TRUE IN f[i] + SumOver(S \ {i}, f)

\* The squared Euclidean distance between the ends of a row.
SquaredDistance(row) ==
    LET dx == row.EndX_m - row.StartX_m
        dy == row.EndY_m - row.StartY_m
        dz == row.EndZ_m - row.StartZ_m
    IN  dx * dx + dy * dy + dz * dz

\* len is the Euclidean length of the row, to the unit.
IsEuclideanLength(len, row) ==
    /\ len >= 0
    /\ len * len <= SquaredDistance(row)
    /\ SquaredDistance(row) < (len + 1) * (len + 1)

\* C1: for every run the reported TotalLength is the sum of the lengths
\* computed for exactly the rows of that run, each the 3D Euclidean length of
\* its segment (0 for a zero-length segment), and every run is reported.
C1_TotalLengthIsSum ==
    Aggregated =>
        /\ {aggregated_data[k].PipeRunID : k \in 1..Len(aggregated_data)}
              = {df[i].PipeRunID : i \in 1..Len(df)}
        /\ \A k \in 1..Len(aggregated_data) :
              LET rows == RowsOf(aggregated_data[k].PipeRunID)
              IN  /\ \A i \in rows : IsEuclideanLength(CalculatedLength_m[i], df[i])
                  /\ \A i \in rows : RowStart(df[i]) = RowEnd(df[i]) => CalculatedLength_m[i] = 0
                  /\ aggregated_data[k].TotalLength = SumOver(rows, CalculatedLength_m)

\* Two runs are reported, one of them made of a zero-length segment and a
\* segment that is not parallel to an axis.
C1_Witness ==
    /\ pc = "aggregated"
    /\ Len(aggregated_data) = 2
    /\ \E k \in 1..2 :
          LET rows == RowsOf(aggregated_data[k].PipeRunID)
          IN  /\ \E i \in rows : RowStart(df[i]) = RowEnd(df[i])
              /\ \E i \in rows : df[i].StartX_m # df[i].EndX_m /\ df[i].StartY_m # df[i].EndY_m
              /\ aggregated_data[k].TotalLength > 0

\* The elevations reported for the run of key position k.
Elev(k) == <<elevation_data[k].StartElevation_m, elevation_data[k].EndElevation_m>>

\* The rows of the run of key position k, in input order.
RunGroup(k) == Group(df, elevation_data[k].PipeRunID)

\* C2 (as stated): for every run StartElevation <= EndElevation.
C2_AlwaysAscending ==
    Resolved => \A k \in 1..Len(elevation_data) : Elev(k)[1] <= Elev(k)[2]

\* C2 (amended): for every run of two or more segments
\* StartElevation <= EndElevation; a single-segment run reports the raw
\* (StartZ_m, EndZ_m) of its segment, in that order, ascending or not.
C2_MultiSegmentAscending ==
    Resolved =>
        \A k \in 1..Len(elevation_data) :
            Len(RunGroup(k)) >= 2 => Elev(k)[1] <= Elev(k)[2]

\* A run of two or more segments resolved by the double search, whose first
\* degree-1 node is its lowest end.
C2_Witness ==
    /\ pc = "resolved"
    /\ \E k \in 1..Len(elevation_data) :
          LET g == BuildGraph(EmptyGraph, RunGroup(k), TolUnits)
          IN  /\ Len(RunGroup(k)) >= 2
              /\ Len(Endpoints(g)) >= 2
              /\ Elev(k)[1] < Elev(k)[2]
              /\ g.node_z[Endpoints(g)[1]] = Elev(k)[1]

\* C3: a run of exactly one segment reports that segment's raw StartZ_m and
\* EndZ_m, in that order, not snapped.
C3_SingleSegmentRaw ==
    Resolved =>
        \A k \in 1..Len(elevation_data) :
            Len(RunGroup(k)) = 1 =>
                Elev(k) = <<RunGroup(k)[1].StartZ_m, RunGroup(k)[1].EndZ_m>>

\* A single-segment run whose start is off the tolerance grid.
C3_Witness ==
    /\ pc = "resolved"
    /\ \E k \in 1..Len(elevation_data) :
          /\ Len(RunGroup(k)) = 1
          /\ RunGroup(k)[1].StartZ_m % TolUnits # 0
          /\ Elev(k)[1] = RunGroup(k)[1].StartZ_m

\* Vectors between coordinate tuples.
Sub(p, q) == <<p[1] - q[1], p[2] - q[2], p[3] - q[3]>>
Dot(u, v) == u[1] * v[1] + u[2] * v[2] + u[3] * v[3]
Cross(u, v) ==
    <<u[2] * v[3] - u[3] * v[2], u[3] * v[1] - u[1] * v[3], u[1] * v[2] - u[2] * v[1]>>

\* The raw end points of the rows of a group.
RawPoints(group) ==
    UNION {{RowStart(group[i]), RowEnd(group[i])} : i \in 1..Len(group)}

\* o and e are the two ends of a straight chain made of the rows of the
\* group: every point lies on the line from o to e and between them, every
\* row joins two neighbouring points, and no two rows join the same two.
IsChainBetween(group, o, e) ==
    LET P == RawPoints(group)
        t(p) == Dot(Sub(p, o), Sub(e, o))
    IN  /\ o \in P /\ e \in P /\ o # e
        /\ Cardinality(P) = Len(group) + 1
        /\ \A p \in P : Cross(Sub(p, o), Sub(e, o)) = <<0, 0, 0>> /\ 0 <= t(p) /\ t(p) <= t(e)
        /\ \A i \in 1..Len(group) :
              /\ RowStart(group[i]) # RowEnd(group[i])
              /\ \A p \in P :
                    ~(t(RowStart(group[i])) < t(p) /\ t(p) < t(RowEnd(group[i])))
                    /\ ~(t(RowEnd(group[i])) < t(p) /\ t(p) < t(RowStart(group[i])))
        /\ Cardinality({{RowStart(group[i]), RowEnd(group[i])} : i \in 1..Len(group)})
              = Len(group)

\* A linear run: two or more collinear segments joined end to end.
IsLinearRun(group) ==
    /\ Len(group) >= 2
    /\ \E o, e \in RawPoints(group) : IsChainBetween(group, o, e)

\* C4: for a linear run, whatever the order and the orientation of its rows,
\* the reported elevations are the z of its two extremities, the lower
\* first.  The z are compared on the tolerance grid, where the nodes of the
\* graph live.
C4_ChainExtremities ==
    Resolved =>
        \A k \in 1..Len(elevation_data) :
            IsLinearRun(RunGroup(k)) =>
                \A o, e \in RawPoints(RunGroup(k)) :
                    IsChainBetween(RunGroup(k), o, e) =>
                        Elev(k) = Ascending(Round(o[3], TolUnits) * TolUnits,
                                            Round(e[3], TolUnits) * TolUnits)

\* The graph of the k-th run and the elevations of its nodes.
RunGraph(k) == BuildGraph(EmptyGraph, RunGroup(k), TolUnits)
NodeElevations(k) == LET g == RunGraph(k) IN {g.node_z[n] : n \in DOMAIN g.node_z}
HasDegreeOne(k) == LET g == RunGraph(k) IN \E n \in DOMAIN g.adj : Cardinality(g.adj[n]) = 1

\* C5: a run of two or more segments whose graph has no node of degree 1 is
\* reported with the lowest and the highest elevation over all the nodes of
\* the graph, snapped points and fitting nodes alike.
C5_NoEndpointVerticalRange ==
    Resolved =>
        \A k \in 1..Len(elevation_data) :
            (Len(RunGroup(k)) >= 2 /\ ~HasDegreeOne(k)) =>
                LET zs == NodeElevations(k)
                IN  /\ Elev(k)[1] \in zs
                    /\ Elev(k)[2] \in zs
                    /\ \A z \in zs : Elev(k)[1] <= z /\ z <= Elev(k)[2]

\* A run with a fitting node and no node of degree 1, whose rows neither
\* start at the lowest nor end at the highest node.
C5_Witness ==
    /\ pc = "resolved"
    /\ \E k \in 1..Len(elevation_data) :
          /\ Len(RunGroup(k)) >= 2
          /\ ~HasDegreeOne(k)
          /\ \E n \in DOMAIN RunGraph(k).node_z : ~IsPoint(n)
          /\ Elev(k)[1] < Elev(k)[2]
          /\ RunGroup(k)[1].StartZ_m # Elev(k)[1]
          /\ RunGroup(k)[Len(RunGroup(k))].EndZ_m # Elev(k)[2]

\* The example scenario: run R1, seg1 (0,0,0)->(5,0,0) with Elbow[1], and
\* seg2 (5,0,0)->(5,0,3) with "Elbow[1]; Tee[2]", both 50 mm and CS40.
ExampleDf ==
    <<Seg(R1, PA, PB, CS40, 50, <<Elbow1>>, Semi),
      Seg(R1, PB, PC, CS40, 50, <<Elbow1, Tee2>>, SemiSpace)>>

\* The nodes of degree 1 of the graph of the table's first run.
DegreeOneNodes(d) ==
    LET g == BuildGraph(EmptyGraph, Group(d, RunKeys(d)[1]), TolUnits)
    IN  {n \in DOMAIN g.adj : Cardinality(g.adj[n]) = 1}

\* What the example scenario expects of the output: one pipe row and two
\* node rows for R1, with length 8.0, spec CS40, size 50, fittings
\* "Elbow; Tee" and elevations 0.0 and 3.0.
ExampleReported ==
    /\ Len(final_output_df) = 3
    /\ final_output_df[1]["device_type"] = Txt(<<"p", "i", "p", "e">>)
    /\ final_output_df[1]["name"] = Txt(R1)
    /\ final_output_df[1]["length"] = Num(8 * M)
    /\ final_output_df[1]["spec"] = Txt(CS40)
    /\ final_output_df[1]["size"] = Num(50)
    /\ final_output_df[1]["fittings"] =
          Txt(<<"E", "l", "b", "o", "w", ";", " ", "T", "e", "e">>)
    /\ final_output_df[2]["name"] = Txt(R1 \o <<"_", "S", "t", "a", "r", "t", "N", "o", "d", "e">>)
    /\ final_output_df[2]["elevation"] = Num(0)
    /\ final_output_df[3]["name"] = Txt(R1 \o <<"_", "E", "n", "d", "N", "o", "d", "e">>)
    /\ final_output_df[3]["elevation"] = Num(3 * M)

\* C6 (as stated): in the example scenario (0,0,0) and (5,0,3) are the two
\* degree-1 endpoints found by the resolver, and the run is reported with
\* the expected values.
C6_ExampleEndpointsAndOutput ==
    (df = ExampleDf /\ Written) =>
        /\ DegreeOneNodes(df) = {PointNode(PA), PointNode(PC)}
        /\ ExampleReported

\* C6 (amended): in the example scenario the graph has no node of degree 1,
\* every point touching a fitting as well as a point, and the run is
\* reported with the expected values.
C6_ExampleFallbackAndOutput ==
    (df = ExampleDf /\ Written) =>
        /\ DegreeOneNodes(df) = {}
        /\ ExampleReported

\* The example scenario with its output assembled.
C6_Witness == df = ExampleDf /\ pc = "assembled" /\ Len(final_output_df) = 3

\* The fitting instances a cell of ConnectedFittingNames was exported from.
CellTokens(cell) ==
    (CHOOSE parts \in FieldParts : FieldValue(parts[1], parts[2]) = cell)[1]

\* The rows of the k-th aggregated run, the fitting instances they refer to
\* and the number of rows referring to an instance.
AggGroup(k) == Group(df, aggregated_data[k].PipeRunID)
RunInstances(k) ==
    LET g == AggGroup(k)
    IN  UNION {Range(CellTokens(g[i].ConnectedFittingNames)) : i \in 1..Len(g)}
References(k, t) ==
    LET g == AggGroup(k)
    IN  Cardinality({i \in 1..Len(g) : t \in Range(CellTokens(g[i].ConnectedFittingNames))})

\* The entries of the k-th run's output fitting list, read back from the
\* "; "-joined string.
OutputNames(k) ==
    LET pieces == Split(aggregated_data[k].Fittings, ";")
    IN  IF aggregated_data[k].Fittings = <<>> THEN <<>>
        ELSE [i \in 1..Len(pieces) |-> Strip(pieces[i])]

\* C7: a fitting instance referenced by two or more segments of a run
\* contributes exactly one entry to the run's output fitting list: the list
\* has one entry for each distinct instance, and the instance's name occurs
\* once for each distinct instance of that name.
C7_SharedInstanceOnce ==
    Aggregated =>
        \A k \in 1..Len(aggregated_data) :
            LET inst  == RunInstances(k)
                names == OutputNames(k)
            IN  \A t \in inst :
                    References(k, t) >= 2 =>
                        /\ Len(names) = Cardinality(inst)
                        /\ Count(names, t.name)
                              = Cardinality({u \in inst : u.name = t.name})

\* A run with an instance that two rows refer to and another that one row
\* refers to, reported with two entries.
C7_Witness ==
    /\ pc = "aggregated"
    /\ \E k \in 1..Len(aggregated_data) :
          /\ \E t \in RunInstances(k) : References(k, t) >= 2
          /\ \E t \in RunInstances(k) : References(k, t) = 1
          /\ Len(OutputNames(k)) = 2

\* C8: the names in the output fitting list of every run appear in
\* alphabetical order of the name.
C8_NamesInNameOrder ==
    Aggregated =>
        \A k \in 1..Len(aggregated_data) :
            \A i, j \in 1..Len(OutputNames(k)) :
                i < j => ~StrLess(OutputNames(k)[j], OutputNames(k)[i])

\* C9 (as stated): no fitting name appears more than once in the output
\* fitting list of a run.
C9_NamesUnique ==
    Aggregated =>
        \A k \in 1..Len(aggregated_data) :
            \A i, j \in 1..Len(OutputNames(k)) :
                OutputNames(k)[i] = OutputNames(k)[j] => i = j

\* C9 (amended): the output fitting list of a run is deduplicated by
\* instance and not by name: a name appears once for each distinct instance
\* of the run that bears it, and no other name appears.
C9_OneNamePerInstance ==
    Aggregated =>
        \A k \in 1..Len(aggregated_data) :
            LET inst  == RunInstances(k)
                names == OutputNames(k)
            IN  /\ \A t \in inst :
                      Count(names, t.name) = Cardinality({u \in inst : u.name = t.name})
                /\ \A i \in 1..Len(names) : \E u \in inst : u.name = names[i]

\* A run with two distinct instances of one name, the name reported twice.
C9_Witness ==
    /\ pc = "aggregated"
    /\ \E k \in 1..Len(aggregated_data) :
          \E t, u \in RunInstances(k) :
              /\ t # u
              /\ t.name = u.name
              /\ Count(OutputNames(k), t.name) = 2

\* C10: two executions of the script on the same input give identical
\* output rows, the same values in the same order: whenever an execution has
\* assembled its output and the file of an earlier execution is in place,
\* the two agree.
C10_RerunSameOutput ==
    (pc = "assembled" /\ csv_file # <<>>) => final_output_df = csv_file


\* The run ids of the input, and the positions of the output rows of a given
\* device_type and name.
InputRuns == {df[i].PipeRunID : i \in 1..Len(df)}
PipeType == Txt(<<"p", "i", "p", "e">>)
NodeType == Txt(<<"n", "o", "d", "e">>)
RowsNamed(type, name) ==
    {i \in 1..Len(final_output_df) :
        final_output_df[i]["device_type"] = type /\ final_output_df[i]["name"] = Txt(name)}
StartNodeName(run) == run \o <<"_", "S", "t", "a", "r", "t", "N", "o", "d", "e">>
EndNodeName(run) == run \o <<"_", "E", "n", "d", "N", "o", "d", "e">>
AggOf(run) == CHOOSE a \in Range(aggregated_data) : a.PipeRunID = run
ElevOf(run) == CHOOSE e \in Range(elevation_data) : e.PipeRunID = run

\* C11: for every run of the input the output has exactly one pipe row named
\* after the run, carrying its length, spec, size and fittings, exactly one
\* node row <run>_StartNode with the start elevation and exactly one node row
\* <run>_EndNode with the end elevation; there are no other rows.
C11_OnePipeTwoNodesPerRun ==
    Written =>
        /\ Len(final_output_df) = 3 * Cardinality(InputRuns)
        /\ \A run \in InputRuns :
              LET agg    == AggOf(run)
                  elev   == ElevOf(run)
                  pipes  == RowsNamed(PipeType, run)
                  starts == RowsNamed(NodeType, StartNodeName(run))
                  ends   == RowsNamed(NodeType, EndNodeName(run))
              IN  /\ \E i \in 1..Len(final_output_df) :
                        /\ pipes = {i}
                        /\ final_output_df[i]["length"] = Num(agg.TotalLength)
                        /\ final_output_df[i]["spec"] = Txt(agg.Spec)
                        /\ final_output_df[i]["size"] = Num(agg.Size)
                        /\ final_output_df[i]["fittings"] = Txt(agg.Fittings)
                  /\ \E i \in 1..Len(final_output_df) :
                        /\ starts = {i}
                        /\ final_output_df[i]["elevation"] = Num(elev.StartElevation_m)
                  /\ \E i \in 1..Len(final_output_df) :
                        /\ ends = {i}
                        /\ final_output_df[i]["elevation"] = Num(elev.EndElevation_m)

\* An output for two runs of different elevations, the rows of the second
\* run given first in the input.
C11_Witness ==
    /\ pc = "done"
    /\ Cardinality(InputRuns) = 2
    /\ Len(csv_file) = 6
    /\ df[1].PipeRunID = R2
    /\ ElevOf(R1).StartElevation_m # ElevOf(R1).EndElevation_m

\* C12: every output row has exactly the 19 fixed columns; device_type is
\* 'pipe' or 'node'; a pipe row is empty outside device_type, name, length,
\* spec, size and fittings, and a node row outside device_type, name and
\* elevation.
PipeColumns == {"device_type", "name", "length", "spec", "size", "fittings"}
NodeColumns == {"device_type", "name", "elevation"}
C12_FixedColumnsRestEmpty ==
    Written =>
        /\ Len(output_columns) = 19
        /\ Cardinality(Range(output_columns)) = 19
        /\ output_columns[1] = "device_type" /\ output_columns[2] = "name"
        /\ output_columns[3] = "elevation" /\ output_columns[4] = "length"
        /\ output_columns[5] = "spec" /\ output_columns[6] = "size"
        /\ output_columns[7] = "fittings" /\ output_columns[19] = "Control Valve max dP"
        /\ \A i \in 1..Len(final_output_df) :
              LET row == final_output_df[i]
              IN  /\ DOMAIN row = Range(output_columns)
                  /\ row["device_type"] \in {PipeType, NodeType}
                  /\ \A c \in DOMAIN row :
                        \/ row[c] = Txt(<<>>)
                        \/ row["device_type"] = PipeType /\ c \in PipeColumns
                        \/ row["device_type"] = NodeType /\ c \in NodeColumns

\* A written output with a pipe row whose elevation is empty and a node row
\* whose length is empty.
C12_Witness ==
    /\ pc = "done"
    /\ \E i, j \in 1..Len(csv_file) :
          /\ csv_file[i]["device_type"] = PipeType /\ csv_file[i]["elevation"] = Txt(<<>>)
          /\ csv_file[j]["device_type"] = NodeType /\ csv_file[j]["length"] = Txt(<<>>)
          /\ csv_file[j]["fittings"] = Txt(<<>>)


\* A segment record whose coordinate cells are all numbers, and the valid
\* rows of the k-th aggregated run.
ValidRow(row) == ~HasNaN(row) /\ ~HasText(row)
ValidGroup(k) == SelectSeq(AggGroup(k), ValidRow)

\* C13: a segment record with a malformed or missing numeric field is left
\* out of its run's aggregation, and the other segments and runs are still
\* processed: no execution is cut short, and a run is aggregated from its
\* valid segments alone.
C13_InvalidSegmentExcluded ==
    /\ pc # "aborted"
    /\ Aggregated =>
          \A k \in 1..Len(aggregated_data) :
              ValidGroup(k) # <<>> =>
                  /\ aggregated_data[k].Fittings =
                        aggregate_fittings([i \in 1..Len(ValidGroup(k)) |->
                                               ValidGroup(k)[i].ConnectedFittingNames])
                  /\ aggregated_data[k].TotalLength =
                        SumSeq([i \in 1..Len(ValidGroup(k)) |->
                                   calculate_length(ValidGroup(k)[i])])

\* C14: once the input is loaded, no exception raised while a row or a run
\* is processed escapes and ends the execution.
C14_NoExceptionEscapes ==
    pc \in {"loaded", "measured", "aggregated", "resolved", "assembled", "done"}

\* The pieces of the fitting cells of the k-th aggregated run, and the form
\* Name[Id] with a name and an instance id.
RunPieces(k) ==
    UNION { IF IsStr(AggGroup(k)[i].ConnectedFittingNames)
            THEN {Strip(p) : p \in Range(Split(AggGroup(k)[i].ConnectedFittingNames, ";"))}
            ELSE {} : i \in 1..Len(AggGroup(k)) } \ {<<>>}
IsNameId(f) ==
    LET parts == Split(f, "[")
    IN  /\ Len(parts) = 2
        /\ parts[1] # <<>>
        /\ Len(parts[2]) >= 2
        /\ parts[2][Len(parts[2])] = "]"

\* C15: a fitting token that does not parse as Name[Id] adds nothing to the
\* run's fitting list and no node to the run's graph: the list holds one
\* name for each well-formed token, and every fitting node of the graph is a
\* well-formed token.
C15_UnparseableTokenSkipped ==
    Aggregated =>
        \A k \in 1..Len(aggregated_data) :
            /\ Len(OutputNames(k)) = Cardinality({f \in RunPieces(k) : IsNameId(f)})
            /\ \A i \in 1..Len(OutputNames(k)) :
                  \E f \in RunPieces(k) : IsNameId(f) /\ Split(f, "[")[1] = OutputNames(k)[i]
            /\ (Len(AggGroup(k)) >= 2 /\ ~SnapRaisesValueError(AggGroup(k))) =>
                  \A n \in DOMAIN BuildGraph(EmptyGraph, AggGroup(k), TolUnits).adj :
                      IsPoint(n) \/ IsNameId(n.fit)


\* The SegmentName and Diameter_mm cells of the k-th aggregated run, and the
\* number of rows of a sequence holding a value.
RunSpecs(k) == LET g == AggGroup(k) IN [i \in 1..Len(g) |-> g[i].SegmentName]
RunSizes(k) == LET g == AggGroup(k) IN [i \in 1..Len(g) |-> g[i].Diameter_mm]
Occurrences(vals, v) == Cardinality({i \in DOMAIN vals : vals[i] = v})

OnGrid(p, t) == \A i \in 1..3 : p[i] % t = 0

C18_NoiseCollapses ==
    (snap_pt \in DOMAIN snapped /\ snap_near \in DOMAIN snapped
        /\ \A i \in 1..3 : snap_near[i] - snap_pt[i] < snap_tol
                           /\ snap_pt[i] - snap_near[i] < snap_tol)
    => /\ snapped[snap_pt] = snapped[snap_near]
       /\ PointNode(snapped[snap_pt]) = PointNode(snapped[snap_near])


\* Hop distances in a graph, from its adjacency alone: the nodes within n
\* hops of a node, the distance of two nodes and the largest distance.
RECURSIVE Within(_, _, _)
Within(g, a, n) ==
    IF n = 0 THEN {a}
    ELSE LET W == Within(g, a, n - 1) IN W \cup UNION {g.adj[u] : u \in W}
HopDistance(g, a, b) ==
    CHOOSE n \in 0..Len(g.keys) :
        b \in Within(g, a, n) /\ (n = 0 \/ b \notin Within(g, a, n - 1))
Diameter(g) == Max({HopDistance(g, u, v) : u, v \in DOMAIN g.adj})

\* A tree: connected, without a loop from a node to itself, and with one
\* edge less than it has nodes.
IsTree(g) ==
    /\ g.keys # <<>>
    /\ \A n \in DOMAIN g.adj : n \notin g.adj[n]
    /\ Within(g, g.keys[1], Len(g.keys)) = DOMAIN g.adj
    /\ SumSeq([i \in 1..Len(g.keys) |-> Cardinality(g.adj[g.keys[i]])])
          = 2 * (Len(g.keys) - 1)

\* C19: for a run of two or more segments whose graph is a tree with at
\* least two nodes of degree 1, the nodes a and b of the double sweep are as
\* far apart as any two nodes of the graph, whatever the first degree-1 node
\* and the order in which neighbours are visited.
C19_DoubleSweepExactOnTrees ==
    Resolved =>
        \A k \in 1..Len(elevation_data) :
            LET g == RunGraph(k)
            IN  (Len(RunGroup(k)) >= 2 /\ IsTree(g) /\ Len(Endpoints(g)) >= 2)
                => LET diam == Diameter(g)
                   IN  \A ab \in DoubleBfsNodes(g, tuple_hash) :
                          HopDistance(g, ab[1], ab[2]) = diam

\* A chain of three segments given out of sequence (the first two rows do
\* not touch), resolved by the double sweep.
C19_Witness ==
    /\ pc = "resolved"
    /\ \E k \in 1..Len(elevation_data) :
          /\ Len(RunGroup(k)) = 3
          /\ IsTree(RunGraph(k))
          /\ Len(Endpoints(RunGraph(k))) = 2
          /\ Diameter(RunGraph(k)) = 3
          /\ {RowStart(RunGroup(k)[1]), RowEnd(RunGroup(k)[1])}
                \cap {RowStart(RunGroup(k)[2]), RowEnd(RunGroup(k)[2])} = {}


\* The sum of the z of a set of point nodes.
RECURSIVE SumZ(_)
SumZ(S) ==
    IF S = {} THEN 0
    ELSE LET n == CHOOSE n \in S : TRUE IN n.pt[3] + SumZ(S \ {n})

\* C20: after the graph of a run is built, the elevation of every fitting
\* node is the average z of all the segment endpoints adjacent to it, also
\* when several segments refer to the fitting, and whatever the row order.
C20_FittingElevationIsAverage ==
    Resolved =>
        \A k \in 1..Len(elevation_data) :
            Len(RunGroup(k)) >= 2 =>
                \A n \in DOMAIN RunGraph(k).node_z :
                    ~IsPoint(n) =>
                        RunGraph(k).node_z[n] * Cardinality(RunGraph(k).adj[n])
                            = SumZ(RunGraph(k).adj[n])


\* A segment whose two ends snap to one point and whose fitting cell is
\* empty, and a group without its i-th row.
ZeroLength(row, tol) == _snap_point(RowStart(row), tol) = _snap_point(RowEnd(row), tol)
Bare(row) == ~IsStr(row.ConnectedFittingNames)
Without(group, i) ==
    [j \in 1..(Len(group) - 1) |-> IF j < i THEN group[j] ELSE group[j + 1]]
DegreeOne(g) == {n \in DOMAIN g.adj : Cardinality(g.adj[n]) = 1}

\* C21: in the graph of a run of two or more segments no node is its own
\* neighbour, and a zero-length segment without fittings changes neither the
\* degree of a node nor the set of degree-1 nodes: the graph built without
\* that row has the same degrees and the same degree-1 nodes.
C21_NoSelfNeighbour ==
    Resolved =>
        \A k \in 1..Len(elevation_data) :
            LET grp == RunGroup(k)
                g   == RunGraph(k)
            IN  Len(grp) >= 2 =>
                  /\ \A n \in DOMAIN g.adj : n \notin g.adj[n]
                  /\ \A i \in 1..Len(grp) :
                        (ZeroLength(grp[i], TolUnits) /\ Bare(grp[i])) =>
                            LET h == BuildGraph(EmptyGraph, Without(grp, i), TolUnits)
                            IN  /\ DegreeOne(g) = DegreeOne(h)
                                /\ \A n \in DOMAIN h.adj :
                                      Cardinality(g.adj[n]) = Cardinality(h.adj[n])


\* C22: a run of two or more segments whose graph has exactly one node of
\* degree 1 is reported as the fallback reports it, with the lowest and the
\* highest elevation over all the nodes of the graph, not with the
\* elevations of two nodes found by the double search.
C22_OneEndpointVerticalRange ==
    Resolved =>
        \A k \in 1..Len(elevation_data) :
            LET g == RunGraph(k)
            IN  (Len(RunGroup(k)) >= 2 /\ Cardinality(DegreeOne(g)) = 1) =>
                    LET zs == {g.node_z[n] : n \in DOMAIN g.node_z}
                    IN  Elev(k) = <<Min(zs), Max(zs)>>

\* A loop through a fitting with a single tail: one node of degree 1, and a
\* node as far from it as any other whose elevation is not the highest.
C22_Witness ==
    /\ pc = "resolved"
    /\ \E k \in 1..Len(elevation_data) :
          LET g == RunGraph(k)
          IN  /\ Len(RunGroup(k)) >= 2
              /\ Cardinality(DegreeOne(g)) = 1
              /\ \E e \in DegreeOne(g) : \E n \in DOMAIN g.adj :
                    /\ ~IsPoint(n)
                    /\ HopDistance(g, e, n) = Max({HopDistance(g, e, u) : u \in DOMAIN g.adj})
                    /\ g.node_z[n] < Elev(k)[2]


---------------------------------------------------------------------------
(* The CSV builder (csvpopulate.py)                                        *)

\* HEADERS
HEADERS ==
    <<"device_type", "name", "elevation", "length", "spec", "size", "fittings",
      "inlet elevation", "outlet elevation", "Flow Control Device", "Temp Tolerance",
      "Thermal Calculation Mode", "Heat Transfer Rate", "Thermal Flow Rate", "Source",
      "Control Valve model", "Control Valve setpoint", "Control Valve min dP",
      "Control Valve max dP">>

\* The keys of DEVICE_PARAMETERS, in the order of the dict: list(DEVICE_PARAMETERS.keys()).
device_options ==
    <<<<"p", "i", "p", "e">>, <<"n", "o", "d", "e">>,
      <<"h", "e", "a", "t", "s", "o", "u", "r", "c", "e", "s", "i", "n", "k">>,
      <<"c", "o", "n", "t", "r", "o", "l", "v", "a", "l", "v", "e">>,
      <<"l", "i", "n", "e", "u", "p">>>>

\* DEVICE_PARAMETERS
DEVICE_PARAMETERS ==
    (device_options[1] :> <<"name", "length", "spec", "size", "fittings">>) @@
    (device_options[2] :> <<"name", "elevation">>) @@
    (device_options[3] :>
        <<"name", "inlet elevation", "outlet elevation", "Flow Control Device",
          "Temp Tolerance", "Thermal Calculation Mode", "Heat Transfer Rate",
          "Thermal Flow Rate", "Source">>) @@
    (device_options[4] :>
        <<"name", "elevation", "Control Valve model", "Control Valve setpoint",
          "Control Valve min dP", "Control Valve max dP">>) @@
    (device_options[5] :> <<"name">>)

\* VALIDATION_RULES: the lists of choices, the numeric and the boolean parameters.
ValidationChoices ==
    ("Thermal Calculation Mode" :>
        <<<<"c", "a", "l", "c", "u", "l", "a", "t", "e", "_", "h", "e", "a", "t", "_",
            "t", "r", "a", "n", "s", "f", "e", "r", "_", "r", "a", "t", "e">>,
          <<"c", "a", "l", "c", "u", "l", "a", "t", "e", "_", "f", "l", "o", "w", "_",
            "r", "a", "t", "e">>>>) @@
    ("Control Valve model" :>
        <<<<"f", "l", "o", "w", "_", "r", "a", "t", "e">>,
          <<"t", "e", "m", "p", "e", "r", "a", "t", "u", "r", "e", "_",
            "c", "o", "n", "t", "r", "o", "l">>>>)
ValidationNumeric ==
    {"length", "elevation", "inlet elevation", "outlet elevation", "size",
     "Temp Tolerance", "Heat Transfer Rate", "Thermal Flow Rate",
     "Control Valve setpoint", "Control Valve min dP", "Control Valve max dP"}
ValidationBoolean == {"Source"}

\* s.lower()
Lower(s) ==
    [i \in 1..Len(s) |-> IF Ord[s[i]] \in 65..90 THEN Ascii[Ord[s[i]] + 1] ELSE s[i]]

\* s.isdigit(), and int(s) for a str of digits (any other str raises ValueError).
IsDigits(s) == s # <<>> /\ \A i \in 1..Len(s) : Ord[s[i]] \in 48..57
RECURSIVE IntOf(_)
IntOf(s) == IF s = <<>> THEN 0 ELSE 10 * IntOf(SubSeq(s, 1, Len(s) - 1)) + Ord[s[Len(s)]] - 48


\* The program waits at input() for a line that stdin does not hold.
Blocked == [blocked |-> TRUE]
Returned(r) == "value" \in DOMAIN r

\* get_choice_from_options(param, options), reading the lines of stdin: the
\* prompt repeats until a line is the number of an option.
RECURSIVE get_choice_from_options(_, _)
get_choice_from_options(options, stdin) ==
    IF stdin = <<>> THEN Blocked
    ELSE IF IsDigits(Head(stdin)) /\ IntOf(Head(stdin)) \in 1..Len(options)
         THEN [value |-> options[IntOf(Head(stdin))], stdin |-> Tail(stdin)]
         ELSE get_choice_from_options(options, Tail(stdin))

\* float(value) succeeds; of the lines typed here, on a str of digits.
IsFloat(value) == IsDigits(Strip(value))

BoolTrue == {<<"y">>, <<"y", "e", "s">>, <<"t", "r", "u", "e">>}
BoolFalse == {<<"n">>, <<"n", "o">>, <<"f", "a", "l", "s", "e">>, <<>>}

\* get_validated_input(param), reading the lines of stdin: '?' prints the
\* help and a rejected line prints an error, and the prompt repeats.
RECURSIVE get_validated_input(_, _)
get_validated_input(param, stdin) ==
    IF param \in DOMAIN ValidationChoices
    THEN get_choice_from_options(ValidationChoices[param], stdin)
    ELSE IF stdin = <<>> THEN Blocked
    ELSE LET value == Head(stdin)
             again == get_validated_input(param, Tail(stdin))
         IN  IF Strip(value) = <<"?">> THEN again
             ELSE IF param \in ValidationNumeric
             THEN IF Strip(value) = <<>> THEN [value |-> <<>>, stdin |-> Tail(stdin)]
                  ELSE IF IsFloat(value) THEN [value |-> value, stdin |-> Tail(stdin)]
                  ELSE again
             ELSE IF param \in ValidationBoolean
             THEN IF Lower(value) \in BoolTrue
                  THEN [value |-> <<"T", "R", "U", "E">>, stdin |-> Tail(stdin)]
                  ELSE IF Lower(value) \in BoolFalse
                  THEN [value |-> <<"F", "A", "L", "S", "E">>, stdin |-> Tail(stdin)]
                  ELSE again
             ELSE [value |-> value, stdin |-> Tail(stdin)]

\* "for param in required_params: new_row[param] = get_validated_input(param)"
RECURSIVE FillParams(_, _, _)
FillParams(new_row, params, stdin) ==
    IF params = <<>> THEN [value |-> new_row, stdin |-> stdin]
    ELSE LET r == get_validated_input(Head(params), stdin)
         IN  IF Returned(r)
             THEN FillParams([new_row EXCEPT ![Head(params)] = r.value], Tail(params), r.stdin)
             ELSE Blocked

\* The body of add_device up to data.append: the new row for the lines typed.
NewDevice(stdin) ==
    LET c == get_choice_from_options(device_options, stdin)
    IN  IF Returned(c)
        THEN FillParams([[header \in Range(HEADERS) |-> <<>>] EXCEPT !["device_type"] = c.value],
                        DEVICE_PARAMETERS[c.value], c.stdin)
        ELSE Blocked

\* The row edit_device leaves for field field_to_edit and the value entered.
EditedRow(selected_row, field_to_edit, new_value) ==
    IF field_to_edit = "device_type"
    THEN IF Lower(new_value) \in DOMAIN DEVICE_PARAMETERS
         THEN LET old_params == DEVICE_PARAMETERS[selected_row["device_type"]]
                  new_params == DEVICE_PARAMETERS[Lower(new_value)]
              IN  [header \in DOMAIN selected_row |->
                      IF header = "device_type" THEN Lower(new_value)
                      ELSE IF header \in Range(old_params) /\ header \notin Range(new_params)
                      THEN <<>>
                      ELSE selected_row[header]]
         ELSE selected_row
    ELSE [selected_row EXCEPT ![field_to_edit] = new_value]

\* The reference of an object not yet in the heap.
NewRef(heap) == CHOOSE r \in 1..(Cardinality(DOMAIN heap) + 1) : r \notin DOMAIN heap

\* The copy kept as one more reference to the same dict.
same_object(heap, ref) == [ref |-> ref, heap |-> heap]

\* copy.deepcopy(original_row): a new dict of equal content.
deepcopy(heap, ref) == [ref |-> NewRef(heap), heap |-> (NewRef(heap) :> heap[ref]) @@ heap]

\* The heap without the objects no row refers to.
Collect(heap, refs) == [r \in DOMAIN heap \cap Range(refs) |-> heap[r]]

\* data.pop(row_num - 1)
Pop(refs, i) == [j \in 1..(Len(refs) - 1) |-> IF j < i THEN refs[j] ELSE refs[j + 1]]


\* Bounds of the builder session: the choices handled at the menu and the
\* lines a typed script holds.
MaxOps == 3
MaxLines == 30

\* The lines typed at the prompts. Digit(n) is the line of the digit n.
Digit(n) == <<Ascii[n + 17]>>
Cycle(pattern) == [i \in 1..MaxLines |-> pattern[((i - 1) % Len(pattern)) + 1]]
InputScripts == {Cycle(<<<<"1">>, <<>>>>), Cycle(<<<<"?">>, <<"y">>, <<"2">>>>)}
TypeScripts ==
    {<<typed, <<>>>> : typed \in {<<"N", "o", "d", "e">>, <<"P", "I", "P", "E">>,
                                  device_options[3], device_options[5],
                                  <<"C", "o", "n", "t", "r", "o", "l", "V", "a", "l", "v", "e">>,
                                  <<"v", "a", "l", "v", "e">>}}
RowLines == {<<"c">>, <<"x">>} \cup {Digit(n) : n \in 0..(MaxOps + 1)}
FieldLines == {<<"C">>, <<"1", "0">>, <<"1", "1">>} \cup {Digit(n) : n \in 0..9}

\* The row of position i of data.
Row(i) == objects[data[i]]

\* main() after "Create a new CSV from scratch": data = [] and the menu loop.
InitBuilder ==
    /\ df = <<>>
    /\ CalculatedLength_m = <<>>
    /\ aggregated_data = <<>>
    /\ elevation_data = <<>>
    /\ final_output_df = <<>>
    /\ csv_file = <<>>
    /\ tuple_hash = <<>>
    /\ snap_pt = <<>> /\ snap_near = <<>> /\ snap_tol = TolUnits /\ snapped = <<>>
    /\ BuilderIdle
    /\ pc = "menu"

\* choice '1': add_device(data)
add_device ==
    /\ pc = "menu"
    /\ ops < MaxOps
    /\ \E n \in 0..Len(device_options) : \E typed \in InputScripts :
          LET new_row == NewDevice(<<Digit(n)>> \o typed)
          IN  /\ Returned(new_row)
              /\ new_row.stdin # <<>>
              /\ data' = Append(data, NewRef(objects))
              /\ objects' = (NewRef(objects) :> new_row.value) @@ objects
    /\ choice' = "1"
    /\ ops' = ops + 1
    /\ UNCHANGED <<df, CalculatedLength_m, aggregated_data, elevation_data,
                   final_output_df, csv_file, tuple_hash, snap_vars, pc>>

\* The heap edit_device leaves for the lines typed: the row number, the field
\* number and the lines answering the prompt for the value.
EditedObjects(row_num_str, field_num_str, typed) ==
    IF data = <<>> \/ Lower(row_num_str) = <<"c">> \/ ~IsDigits(row_num_str)
    THEN [value |-> objects]
    ELSE IF IntOf(row_num_str) \notin 1..Len(data) THEN [value |-> objects]
    ELSE LET selected_row == Row(IntOf(row_num_str))
             relevant_params ==
                 <<"device_type">> \o DEVICE_PARAMETERS[selected_row["device_type"]]
         IN  IF Lower(field_num_str) = <<"c">> \/ ~IsDigits(field_num_str)
             THEN [value |-> objects]
             ELSE IF IntOf(field_num_str) \notin 1..Len(relevant_params)
             THEN [value |-> objects]
             ELSE LET field_to_edit == relevant_params[IntOf(field_num_str)]
                      new_value == get_validated_input(field_to_edit, typed)
                  IN  IF Returned(new_value) /\ new_value.stdin # <<>>
                      THEN [value |-> [objects EXCEPT ![data[IntOf(row_num_str)]] =
                                EditedRow(selected_row, field_to_edit, new_value.value)]]
                      ELSE Blocked

\* choice '2': edit_device(data)
edit_device ==
    /\ pc = "menu"
    /\ ops < MaxOps
    /\ \E row_num_str \in RowLines : \E field_num_str \in FieldLines :
          \E typed \in (IF field_num_str = <<"1">> THEN TypeScripts ELSE InputScripts) :
              LET edited == EditedObjects(row_num_str, field_num_str, typed)
              IN  /\ Returned(edited)
                  /\ objects' = edited.value
    /\ choice' = "2"
    /\ ops' = ops + 1
    /\ UNCHANGED <<df, CalculatedLength_m, aggregated_data, elevation_data,
                   final_output_df, csv_file, tuple_hash, snap_vars, data, pc>>

\* choice '3': delete_device(data)
delete_device ==
    /\ pc = "menu"
    /\ ops < MaxOps
    /\ \E row_num_str \in RowLines :
          IF data # <<>> /\ Lower(row_num_str) # <<"c">> /\ IsDigits(row_num_str)
             /\ IntOf(row_num_str) \in 1..Len(data)
          THEN /\ data' = Pop(data, IntOf(row_num_str))
               /\ objects' = Collect(objects, Pop(data, IntOf(row_num_str)))
          ELSE UNCHANGED <<data, objects>>
    /\ choice' = "3"
    /\ ops' = ops + 1
    /\ UNCHANGED <<df, CalculatedLength_m, aggregated_data, elevation_data,
                   final_output_df, csv_file, tuple_hash, snap_vars, pc>>

\* choice '4': copy_device(data)
copy_device ==
    /\ pc = "menu"
    /\ ops < MaxOps
    /\ \E row_num_str \in RowLines :
          IF data # <<>> /\ Lower(row_num_str) # <<"c">> /\ IsDigits(row_num_str)
             /\ IntOf(row_num_str) \in 1..Len(data)
          THEN LET new_row == deepcopy(objects, data[IntOf(row_num_str)])
               IN  /\ data' = Append(data, new_row.ref)
                   /\ objects' = new_row.heap
          ELSE UNCHANGED <<data, objects>>
    /\ choice' = "4"
    /\ ops' = ops + 1
    /\ UNCHANGED <<df, CalculatedLength_m, aggregated_data, elevation_data,
                   final_output_df, csv_file, tuple_hash, snap_vars, pc>>

NextBuilder == add_device \/ edit_device \/ delete_device \/ copy_device

SpecBuilder == InitBuilder /\ [][NextBuilder]_vars


\* A row as the builder keeps it: one cell for each header, a device type
\* that is a key of DEVICE_PARAMETERS, and the empty str in every column that
\* is neither device_type nor a parameter of the row's type.
WellFormedRow(r) ==
    /\ DOMAIN r = Range(HEADERS)
    /\ r["device_type"] \in DOMAIN DEVICE_PARAMETERS
    /\ \A header \in DOMAIN r :
          (header # "device_type" /\ header \notin Range(DEVICE_PARAMETERS[r["device_type"]]))
              => r[header] = <<>>
RowsWellFormed == \A i \in 1..Len(data) : WellFormedRow(Row(i))

\* A step of copy_device that copied: one row more, the rows before it as
\* they were, the new row equal to one of them and a dict of its own.
CopyAppends ==
    /\ Len(data') = Len(data) + 1
    /\ \A i \in 1..Len(data) : objects'[data'[i]] = Row(i)
    /\ \E i \in 1..Len(data) : objects'[data'[Len(data')]] = Row(i)
    /\ data'[Len(data')] \notin Range(data)

\* A step of edit_device: as many rows as before, and at most one changed.
EditsOneRow ==
    /\ Len(data') = Len(data)
    /\ \A i, j \in 1..Len(data) :
          (i # j /\ objects'[data'[i]] # Row(i)) => objects'[data'[j]] = Row(j)

\* C23: from the empty list, after any sequence of add_device, edit_device,
\* delete_device and copy_device every row has a device_type that is a key of
\* DEVICE_PARAMETERS and the empty string in every column that is neither
\* device_type nor a parameter of that type, also after the type of a row was
\* changed; copy_device appends a copy that is a dict of its own and leaves
\* the existing rows as they were, so that a later edit changes one row only.
C23_RowsWellFormedCopyIndependent ==
    /\ []RowsWellFormed
    /\ [][(choice' = "4" /\ data' # data) => CopyAppends]_vars
    /\ [][choice' = "2" => EditsOneRow]_vars

\* A pipe was added and copied, and the copy was turned into a node: it keeps
\* the name and has lost the length, and the original still has its length.
C23_Witness ==
    /\ choice = "2"
    /\ ops = 3
    /\ Len(data) = 2
    /\ data[1] # data[2]
    /\ Row(1)["device_type"] = device_options[1]
    /\ Row(1)["length"] # <<>>
    /\ Row(2)["device_type"] = device_options[2]
    /\ Row(2)["name"] = Row(1)["name"]
    /\ Row(2)["name"] # <<>>
    /\ Row(2)["length"] = <<>>

=============================================================================
